---- MODULE Spec2Model ----
(***************************************************************************)
(* Model of the tengine/nginx exporter (src/nginx_exporter.go): the        *)
(* Exporter's metric state (nginxUp, raise, fail, scrapeErrors) and the    *)
(* Collect -> scrape -> emit cycle, one action per atomic operation on the *)
(* shared metric objects.  Text is modelled as sequences of one-character  *)
(* strings so that strings.Split and strconv.Atoi are computed, not        *)
(* assumed.                                                                *)
(***************************************************************************)
EXTENDS Integers, Sequences, FiniteSets

\* ------------------------------------------------------------------ bounds
\* Most lines (segments between "\n") of a served document.
MaxLines == 2
\* Most Collect invocations in one behaviour (caps the cumulative counters).
MaxCollects == 2

\* --------------------------------------------------------------- constants
\* resp.StatusCode < 200 || resp.StatusCode >= 400
StatusMin == 200
StatusLimit == 400
\* Columns a line must have for cols[1]..cols[5] to exist.
MinCols == 6

\* -------------------------------------------------------------------- text
NL == "\n"
Comma == ","

\* strings.Split(s, sep) for a one-character separator: the segments between
\* the separators, always at least one; the empty text splits into one empty
\* segment.  (Computed from the separator positions: a document of the
\* test's size is too deep for a character-by-character recursion.)
Split(s, sep) ==
  LET at     == {i \in 1..Len(s) : s[i] = sep}
      pos(k) == CHOOSE i \in at : Cardinality({j \in at : j < i}) = k - 1
      n      == Cardinality(at)
  IN  [k \in 1..(n + 1) |->
         SubSeq(s, IF k = 1 THEN 1 ELSE pos(k - 1) + 1,
                   IF k = n + 1 THEN Len(s) ELSE pos(k) - 1)]

DigitVal == [c \in {"0", "1", "2", "3", "4", "5", "6", "7", "8", "9"} |->
               CASE c = "0" -> 0 [] c = "1" -> 1 [] c = "2" -> 2 [] c = "3" -> 3
                 [] c = "4" -> 4 [] c = "5" -> 5 [] c = "6" -> 6 [] c = "7" -> 7
                 [] c = "8" -> 8 [] c = "9" -> 9]

RECURSIVE DigitsValue(_, _)
DigitsValue(s, acc) ==
  IF s = <<>> THEN acc ELSE DigitsValue(Tail(s), 10 * acc + DigitVal[Head(s)])

\* strconv.Atoi: optional sign, then one or more decimal digits; anything
\* else is an error (the int range is never exceeded by the bounded fields).
Atoi(s) ==
  LET signed == s # <<>> /\ Head(s) \in {"+", "-"}
      digits == IF signed THEN Tail(s) ELSE s
      okay   == digits # <<>> /\ \A i \in 1..Len(digits) : digits[i] \in DOMAIN DigitVal
  IN  IF ~okay THEN [err |-> TRUE, val |-> 0]
      ELSE [err |-> FALSE,
            val |-> IF signed /\ Head(s) = "-" THEN 0 - DigitsValue(digits, 0)
                    ELSE DigitsValue(digits, 0)]

\* --------------------------------------------------------------- documents
RECURSIVE Join(_, _)
Join(ls, sep) ==
  IF ls = <<>> THEN <<>>
  ELSE IF Len(ls) = 1 THEN ls[1]
  ELSE ls[1] \o <<sep>> \o Join(Tail(ls), sep)

\* Lines an upstream may serve: index,upstream,name,status,raise,fail.
LineA50 == <<"0", ",", "u", ",", "a", ",", "s", ",", "5", ",", "0">>
LineB73 == <<"1", ",", "u", ",", "b", ",", "s", ",", "7", ",", "3", ",", "t", ",", "0">>
LineAx0 == <<"0", ",", "u", ",", "a", ",", "s", ",", "x", ",", "0">>
LineA5x == <<"0", ",", "u", ",", "a", ",", "s", ",", "5", ",", "x">>
LineShort == <<"0", ",", "u">>
LineBlank == <<>>

Lines == {LineA50, LineB73, LineAx0, LineA5x, LineShort, LineBlank}

\* Documents: up to MaxLines lines joined by newlines; a trailing newline is
\* a document whose last line is blank.
Docs == {Join(ls, NL) : ls \in UNION {[1..n -> Lines] : n \in 1..MaxLines}}

\* The status document of TestNginxStatus, line by line.
StatusLine1 ==
  <<"0", ",", "u", "s", "1", ",", "1", "0", ".", "1", ".", "0", ".", "1",
    ":", "8", "0", ",", "u", "p", ",", "8", "2", "4", "7", ",", "0", ",",
    "t", "c", "p", ",", "0">>
StatusLine2 ==
  <<"1", ",", "u", "s", "1", ",", "1", "0", ".", "1", ".", "0", ".", "2",
    ":", "8", "0", ",", "u", "p", ",", "8", "2", "5", "1", ",", "0", ",",
    "t", "c", "p", ",", "0">>
StatusLine3 ==
  <<"2", ",", "u", "s", "2", ",", "1", "0", ".", "1", ".", "0", ".", "3",
    ":", "8", "0", ",", "u", "p", ",", "8", "2", "5", "1", ",", "0", ",",
    "t", "c", "p", ",", "0">>
StatusLine4 ==
  <<"3", ",", "u", "s", "2", ",", "1", "0", ".", "1", ".", "0", ".", "4",
    ":", "8", "0", ",", "u", "p", ",", "8", "2", "4", "7", ",", "0", ",",
    "t", "c", "p", ",", "0">>
StatusLine5 ==
  <<"4", ",", "u", "s", "2", ",", "1", "0", ".", "1", ".", "0", ".", "5",
    ":", "8", "0", ",", "u", "p", ",", "7", "9", "1", "8", ",", "0", ",",
    "t", "c", "p", ",", "0">>
StatusLines == <<StatusLine1, StatusLine2, StatusLine3, StatusLine4, StatusLine5>>

\* nginxStatus: the five lines, each ended by a newline.
NginxStatus == Join(StatusLines \o <<LineBlank>>, NL)

\* Documents of the test's kind: a run of consecutive lines of nginxStatus
\* (none up to all five), with or without the final newline.
TestDocs ==
  {Join(SubSeq(StatusLines, i, j) \o tail, NL) :
     i \in 1..Len(StatusLines), j \in 0..Len(StatusLines),
     tail \in {<<>>, <<LineBlank>>}}

\* err.Error() of a failed body read: one line, no comma.
ErrText == <<"E", "O", "F">>

\* Status codes an upstream may answer with.
Statuses == {101, 200, 399, 400}
\* Status of the response returned together with an error when the client's
\* redirect policy stops following redirects (its body is already closed).
RedirectStatuses == {302}

\* What client.Get may return: a response and no error ("ok"); an error and
\* a nil response ("nil"); an error and the last redirect response, whose
\* body is closed ("closed").
GetResults ==
  [kind : {"ok"}, status : Statuses] \cup [kind : {"nil"}, status : {0}]
    \cup [kind : {"closed"}, status : RedirectStatuses]

\* Documents served while two Collect calls overlap: a clean record, and a
\* record whose raise and fail fields are both not numbers.
LineAxx == <<"0", ",", "u", ",", "a", ",", "s", ",", "x", ",", "x">>
DocsConc == {LineB73, LineAxx}

\* Callers of Collect: the metrics server may run two requests at once.
Procs == {"c1", "c2"}
Main == "c1"

\* ------------------------------------------------------------- metric vecs
\* A GaugeVec / CounterVec: label values -> value; a series exists only once
\* WithLabelValues has been called for it.
NoSeries == [k \in {} |-> 0]

\* vec.WithLabelValues(k).Set(v)
VecSet(vec, k, v) == [x \in DOMAIN vec \cup {k} |-> IF x = k THEN v ELSE vec[x]]

\* A CounterVec rebuilt on every increment: the other label's count is lost.
VecIncRebuilt(vec, k) == VecSet(NoSeries, k, (IF k \in DOMAIN vec THEN vec[k] ELSE 0) + 1)

\* A counter that starts over at 1 on every increment.
VecIncRestart(vec, k) == VecSet(vec, k, 1)

\* vec.WithLabelValues(k).Inc()
VecInc(vec, k) == VecSet(vec, k, (IF k \in DOMAIN vec THEN vec[k] ELSE 0) + 1)

\* ------------------------------------------------------------ line parsing
\* The loop handing every line, blank or not, to the column split.
SkipNothing(ls) == ls

\* `if len(line) <= 0 { continue }`: the loop passes over blank lines.
RECURSIVE SkipBlank(_)
SkipBlank(ls) ==
  IF ls = <<>> THEN <<>>
  ELSE IF Len(Head(ls)) <= 0 THEN SkipBlank(Tail(ls))
  ELSE ls

\* cols[1], cols[2], cols[3]: the label values of a line's series.
KeyOf(cols) == <<cols[2], cols[3], cols[4]>>
RaiseField(cols) == cols[5]
FailField(cols) == cols[6]

\* resp.StatusCode < 200 || resp.StatusCode >= 400
BadStatus(code) == code < StatusMin \/ code >= StatusLimit

\* The line-134 check implied by indexing cols[5]: a shorter line panics
\* with index out of range before any metric is touched.
TooShort(cols) == Len(cols) < MinCols

\* Lines 135-141 on the metric state m = [raise, fail, errs].
ParseRaise(m, cols) ==
  LET r == Atoi(RaiseField(cols))
  IN  IF r.err THEN [m EXCEPT !.errs = VecInc(m.errs, "raise")]
      ELSE [m EXCEPT !.raise = VecSet(m.raise, KeyOf(cols), r.val)]

\* The fail count Set on e.fail, without the non-zero test.
ParseFailAlways(m, cols) ==
  LET f == Atoi(FailField(cols))
  IN  IF f.err THEN [m EXCEPT !.errs = VecInc(m.errs, "fail")]
      ELSE [m EXCEPT !.fail = VecSet(m.fail, KeyOf(cols), f.val)]

\* The fail field's parse error counted under the raise label.
ParseFailCountsRaise(m, cols) ==
  LET f == Atoi(FailField(cols))
  IN  IF f.err THEN [m EXCEPT !.errs = VecInc(m.errs, "raise")]
      ELSE IF f.val # 0 THEN [m EXCEPT !.raise = VecSet(m.raise, KeyOf(cols), f.val)]
      ELSE m

\* The non-zero fail count Set on e.fail.
ParseFailOnFail(m, cols) ==
  LET f == Atoi(FailField(cols))
  IN  IF f.err THEN [m EXCEPT !.errs = VecInc(m.errs, "fail")]
      ELSE IF f.val # 0 THEN [m EXCEPT !.fail = VecSet(m.fail, KeyOf(cols), f.val)]
      ELSE m

\* Lines 143-149: the non-zero fail count is Set on e.raise.
ParseFail(m, cols) ==
  LET f == Atoi(FailField(cols))
  IN  IF f.err THEN [m EXCEPT !.errs = VecInc(m.errs, "fail")]
      ELSE IF f.val # 0 THEN [m EXCEPT !.raise = VecSet(m.raise, KeyOf(cols), f.val)]
      ELSE m

\* Lines 125-150 run alone over the lines ls from the metric state m (a
\* short line panics: nothing after it is applied).
RECURSIVE ParseLines(_, _)
ParseLines(m, ls) ==
  IF ls = <<>> THEN m
  ELSE IF Len(Head(ls)) <= 0 THEN ParseLines(m, Tail(ls))
  ELSE LET cols == Split(Head(ls), Comma)
       IN  IF TooShort(cols) THEN m
           ELSE ParseLines(ParseFail(ParseRaise(m, cols), cols), Tail(ls))

\* ------------------------------------------------------------------- state
VARIABLES
  nginxUp,       \* e.nginxUp: the gauge's value
  raise,         \* e.raise: GaugeVec, label values -> value
  fail,          \* e.fail: GaugeVec
  scrapeErrors,  \* e.scrapeErrors: CounterVec, collector label -> count
  pc,            \* each caller's position in Collect / scrape
  resp,          \* each caller's (resp, err) of client.Get
  doc,           \* each caller's data, the text its scrape parses
  lines,         \* each caller's lines still to be ranged over
  sent,          \* what each caller's Collect has put on ch so far
  pre,           \* history: the metric state when the caller's Collect began
  prev,          \* history: the scrape that finished last before it began
  last,          \* history: the scrape that finished last
  interfered,    \* history: another caller wrote metrics during this Collect
  upWrites,      \* history: nginxUp.Set calls of the caller's current scrape
  bodyRead,      \* history: ioutil.ReadAll ran on the caller's resp.Body
  outcome,       \* history: how the caller's fetch went: "ok", "bad", "err"
  ncollect,      \* Collect calls begun so far
  gets           \* history: client.Get calls of the caller's current Collect

shared == <<nginxUp, raise, fail, scrapeErrors>>
history == <<pre, prev, last, interfered, upWrites, bodyRead, outcome, ncollect, gets>>
vars == <<nginxUp, raise, fail, scrapeErrors, pc, resp, doc, lines, sent,
          pre, prev, last, interfered, upWrites, bodyRead, outcome, ncollect, gets>>

Metrics == [raise |-> raise, fail |-> fail, errs |-> scrapeErrors]

NoResp == [kind |-> "none", status |-> 0]
NothingSent == [raise |-> NoSeries, fail |-> NoSeries, errs |-> NoSeries, up |-> <<>>]
NoScrape == [ok |-> FALSE, keys |-> {}]

\* An unrecovered panic in a collecting goroutine ends the process.
Crashed == \E p \in Procs : pc[p] = "panic"

InCollect(p) == pc[p] \notin {"idle", "done", "panic"}

\* A metric write by p lands inside every other caller's running Collect.
Interfere(p) == [q \in Procs |-> interfered[q] \/ (q # p /\ InCollect(q))]

\* How a fetch went: client.Get returned an error ("err"), or a response
\* with a status outside 200..399 ("bad"), or inside ("ok").
OutcomeOf(r) ==
  IF r.kind # "ok" THEN "err" ELSE IF BadStatus(r.status) THEN "bad" ELSE "ok"

Fetched(p) == outcome[p] = "ok"

\* The label triples of the document's lines that have all their columns.
DocKeys(d) ==
  LET ls == Split(d, NL)
  IN  {KeyOf(Split(ls[i], Comma)) :
         i \in {j \in 1..Len(ls) : Len(ls[j]) > 0 /\ ~TooShort(Split(ls[j], Comma))}}

NewExporter ==
  /\ nginxUp = 0
  /\ raise = NoSeries
  /\ fail = NoSeries
  /\ scrapeErrors = NoSeries

Init ==
  /\ NewExporter
  /\ pc = [p \in Procs |-> "idle"]
  /\ resp = [p \in Procs |-> NoResp]
  /\ doc = [p \in Procs |-> <<>>]
  /\ lines = [p \in Procs |-> <<>>]
  /\ sent = [p \in Procs |-> NothingSent]
  /\ pre = [p \in Procs |-> [up |-> 0, raise |-> NoSeries, errs |-> NoSeries]]
  /\ prev = [p \in Procs |-> NoScrape]
  /\ last = NoScrape
  /\ interfered = [p \in Procs |-> FALSE]
  /\ upWrites = [p \in Procs |-> 0]
  /\ gets = [p \in Procs |-> 0]
  /\ bodyRead = [p \in Procs |-> FALSE]
  /\ outcome = [p \in Procs |-> "none"]
  /\ ncollect = 0

\* ----------------------------------------------------------------- actions
\* Collect is entered (line 95) and calls scrape.
Collect(p) ==
  /\ ~Crashed
  /\ pc[p] \in {"idle", "done"}
  /\ ncollect < MaxCollects
  /\ ncollect' = ncollect + 1
  /\ pc' = [pc EXCEPT ![p] = "get"]
  /\ resp' = [resp EXCEPT ![p] = NoResp]
  /\ doc' = [doc EXCEPT ![p] = <<>>]
  /\ lines' = [lines EXCEPT ![p] = <<>>]
  /\ sent' = [sent EXCEPT ![p] = NothingSent]
  /\ pre' = [pre EXCEPT ![p] = [up |-> nginxUp, raise |-> raise, errs |-> scrapeErrors]]
  /\ prev' = [prev EXCEPT ![p] = last]
  /\ interfered' = [interfered EXCEPT ![p] = FALSE]
  /\ upWrites' = [upWrites EXCEPT ![p] = 0]
  /\ bodyRead' = [bodyRead EXCEPT ![p] = FALSE]
  /\ outcome' = [outcome EXCEPT ![p] = "none"]
  /\ gets' = [gets EXCEPT ![p] = 0]
  /\ UNCHANGED <<shared, last>>

\* A failed Get asked again.
AfterGetRetry(r) == IF r.kind = "nil" THEN "get" ELSE "read"

\* Lines 104-110: whatever Get returned, scrape goes on to read the body.
AfterGet(r) == "read"

\* Lines 104-108: client.Get; on an error nginxUp is Set to 0 and scrape
\* goes on.  An error comes with a nil response, or (redirect policy) with
\* the last response, whose body is closed.
ScrapeGet(p) ==
  /\ ~Crashed
  /\ pc[p] = "get"
  /\ gets' = [gets EXCEPT ![p] = @ + 1]
  /\ \E r \in GetResults :
       /\ pc' = [pc EXCEPT ![p] = AfterGet(r)]
       /\ resp' = [resp EXCEPT ![p] = r]
       /\ outcome' = [outcome EXCEPT ![p] = OutcomeOf(r)]
       /\ IF r.kind # "ok"
          THEN /\ nginxUp' = 0
               /\ interfered' = Interfere(p)
               /\ upWrites' = [upWrites EXCEPT ![p] = @ + 1]
          ELSE UNCHANGED <<nginxUp, interfered, upWrites>>
  /\ UNCHANGED <<raise, fail, scrapeErrors, doc, lines, sent, pre, prev, last,
                 bodyRead, ncollect>>

\* The data lines 110-115 leave: the body read, or err.Error() when the read
\* failed and the status is bad.  A closed body reads as an error and no data.
DataRead(r, body, readErr) ==
  LET failed == readErr \/ r.kind = "closed"
      got    == IF r.kind = "closed" THEN <<>> ELSE body
  IN  IF BadStatus(r.status) /\ failed THEN ErrText ELSE got

\* Lines 110-118: resp.Body is dereferenced (a nil resp panics), read and
\* closed; a bad status Sets nginxUp to 0 and scrape goes on.
ScrapeRead(p, D) ==
  /\ ~Crashed
  /\ pc[p] = "read"
  /\ IF resp[p].kind = "nil"
     THEN /\ pc' = [pc EXCEPT ![p] = "panic"]
          /\ UNCHANGED <<nginxUp, resp, doc, interfered, upWrites, bodyRead>>
     ELSE /\ pc' = [pc EXCEPT ![p] = "up"]
          /\ resp' = [resp EXCEPT ![p] = NoResp]
          /\ bodyRead' = [bodyRead EXCEPT ![p] = TRUE]
          /\ \E body \in D, readErr \in BOOLEAN :
               doc' = [doc EXCEPT ![p] = DataRead(resp[p], body, readErr)]
          /\ IF BadStatus(resp[p].status)
             THEN /\ nginxUp' = 0
                  /\ interfered' = Interfere(p)
                  /\ upWrites' = [upWrites EXCEPT ![p] = @ + 1]
             ELSE UNCHANGED <<nginxUp, interfered, upWrites>>
  /\ UNCHANGED <<raise, fail, scrapeErrors, lines, sent, pre, prev, last, outcome, ncollect, gets>>

\* Lines 120-128: nginxUp is Set to 1 whatever happened before; the data is
\* split into lines and the loop reaches its first non-blank line.
ScrapeUp(p) ==
  /\ ~Crashed
  /\ pc[p] = "up"
  /\ nginxUp' = 1
  /\ interfered' = Interfere(p)
  /\ upWrites' = [upWrites EXCEPT ![p] = @ + 1]
  /\ lines' = [lines EXCEPT ![p] = SkipBlank(Split(doc[p], NL))]
  /\ pc' = [pc EXCEPT ![p] = IF lines'[p] = <<>> THEN "emitRaise" ELSE "raise"]
  /\ UNCHANGED <<raise, fail, scrapeErrors, resp, doc, sent, pre, prev, last,
                 bodyRead, outcome, ncollect, gets>>

\* Lines 129-141: the columns of the line, then its raise field.
ScrapeRaise(p) ==
  /\ ~Crashed
  /\ pc[p] = "raise"
  /\ LET cols == Split(Head(lines[p]), Comma)
     IN  IF TooShort(cols)
         THEN /\ pc' = [pc EXCEPT ![p] = "panic"]
              /\ UNCHANGED <<raise, fail, scrapeErrors, interfered>>
         ELSE LET m == ParseRaise(Metrics, cols)
              IN  /\ pc' = [pc EXCEPT ![p] = "fail"]
                  /\ raise' = m.raise
                  /\ fail' = m.fail
                  /\ scrapeErrors' = m.errs
                  /\ interfered' = Interfere(p)
  /\ UNCHANGED <<nginxUp, resp, doc, lines, sent, pre, prev, last, upWrites,
                 bodyRead, outcome, ncollect, gets>>

\* Lines 143-150: the line's fail field, then on to the next non-blank line
\* or out of scrape.
ScrapeFail(p) ==
  /\ ~Crashed
  /\ pc[p] = "fail"
  /\ LET cols == Split(Head(lines[p]), Comma)
         m    == ParseFail(Metrics, cols)
     IN  /\ raise' = m.raise
         /\ fail' = m.fail
         /\ scrapeErrors' = m.errs
         /\ interfered' = IF ~Atoi(FailField(cols)).err /\ Atoi(FailField(cols)).val = 0
                          THEN interfered   \* a zero fail count writes nothing
                          ELSE Interfere(p)
  /\ lines' = [lines EXCEPT ![p] = SkipBlank(Tail(lines[p]))]
  /\ pc' = [pc EXCEPT ![p] = IF lines'[p] = <<>> THEN "emitRaise" ELSE "raise"]
  /\ UNCHANGED <<nginxUp, resp, doc, sent, pre, prev, last, upWrites, bodyRead,
                 outcome, ncollect, gets>>

\* Line 97: scrape has returned; e.raise.Collect(ch).
CollectRaise(p) ==
  /\ ~Crashed
  /\ pc[p] = "emitRaise"
  /\ pc' = [pc EXCEPT ![p] = "emitFail"]
  /\ sent' = [sent EXCEPT ![p].raise = raise]
  /\ last' = [ok |-> Fetched(p), keys |-> DocKeys(doc[p])]
  /\ UNCHANGED <<shared, resp, doc, lines, pre, prev, interfered, upWrites,
                 bodyRead, outcome, ncollect, gets>>

\* Line 98: e.fail.Collect(ch).
CollectFail(p) ==
  /\ ~Crashed
  /\ pc[p] = "emitFail"
  /\ pc' = [pc EXCEPT ![p] = "emitErrors"]
  /\ sent' = [sent EXCEPT ![p].fail = fail]
  /\ UNCHANGED <<shared, resp, doc, lines, history>>

\* Line 99: e.scrapeErrors.Collect(ch).
CollectScrapeErrors(p) ==
  /\ ~Crashed
  /\ pc[p] = "emitErrors"
  /\ pc' = [pc EXCEPT ![p] = "emitUp"]
  /\ sent' = [sent EXCEPT ![p].errs = scrapeErrors]
  /\ UNCHANGED <<shared, resp, doc, lines, history>>

\* Line 100: ch <- e.nginxUp, and Collect returns.
CollectUp(p) ==
  /\ ~Crashed
  /\ pc[p] = "emitUp"
  /\ pc' = [pc EXCEPT ![p] = "done"]
  /\ sent' = [sent EXCEPT ![p].up = <<nginxUp>>]
  /\ UNCHANGED <<shared, resp, doc, lines, history>>

Step(p, D) ==
  \/ Collect(p)
  \/ ScrapeGet(p)
  \/ ScrapeRead(p, D)
  \/ ScrapeUp(p)
  \/ ScrapeRaise(p)
  \/ ScrapeFail(p)
  \/ CollectRaise(p)
  \/ CollectFail(p)
  \/ CollectScrapeErrors(p)
  \/ CollectUp(p)

\* One caller at a time: Collect calls follow one another.
Next == Step(Main, Docs)

Spec == Init /\ [][Next]_vars

\* Two callers whose Collect calls may overlap: Collect takes no lock.
NextConc == \E p \in Procs : Step(p, DocsConc)

SpecConc == Init /\ [][NextConc]_vars

\* TestNginxStatus: one caller, served documents of the test's kind.
NextTest == Step(Main, TestDocs)

SpecTest == Init /\ [][NextTest]_vars

\* ================================================================== claims
\* Vocabulary of the claims about a document d.
ScrapeOver(p) == pc[p] \in {"emitRaise", "emitFail", "emitErrors", "emitUp", "done"}
Done(p) == pc[p] = "done"
BodyKnown(p) == pc[p] \in {"up", "raise", "fail"} \/ ScrapeOver(p)

\* The columns of the document's non-blank lines, in order.
Rows(d) ==
  LET ls == SelectSeq(Split(d, NL), LAMBDA l : Len(l) > 0)
  IN  [i \in 1..Len(ls) |-> Split(ls[i], Comma)]

RowIdx(d) == 1..Len(Rows(d))
NumericRaise(cols) == ~TooShort(cols) /\ ~Atoi(RaiseField(cols)).err
NumericFail(cols) == ~TooShort(cols) /\ ~Atoi(FailField(cols)).err
\* Every line has all its fields, both counts numeric, and a key of its own.
WellFormed(d) ==
  /\ \A i \in RowIdx(d) : NumericRaise(Rows(d)[i]) /\ NumericFail(Rows(d)[i])
  /\ \A i, j \in RowIdx(d) : KeyOf(Rows(d)[i]) = KeyOf(Rows(d)[j]) => i = j

CounterValue(vec, k) == IF k \in DOMAIN vec THEN vec[k] ELSE 0
NoMetrics == [raise |-> NoSeries, fail |-> NoSeries, errs |-> NoSeries]

\* C1: a scrape whose client.Get returned an error ends with up = 0, the
\* per-backend gauges and both parse-error counters as they were before the
\* scrape, and no response body read.
C1_TransportFailureKeepsState ==
  \A p \in Procs :
    (outcome[p] = "err" /\ ScrapeOver(p)) =>
      /\ nginxUp = 0
      /\ raise = pre[p].raise
      /\ scrapeErrors = pre[p].errs
      /\ ~bodyRead[p]

\* C2: once a scrape is over, up is 1 exactly when that scrape obtained a
\* response (no Get error) with a status code in 200..399, and the up
\* observation sent carries that value.
C2_UpIffFetched ==
  \A p \in Procs :
    /\ ScrapeOver(p) => (nginxUp = 1 <=> Fetched(p))
    /\ Done(p) => (sent[p].up = <<1>> <=> Fetched(p))

\* C3: a scrape that got a response with a status below 200 or at/above 400
\* never parses its body: gauges and parse-error counters stay as they were
\* before the scrape.
C3_BadStatusNotParsed ==
  \A p \in Procs :
    outcome[p] = "bad" =>
      /\ raise = pre[p].raise
      /\ scrapeErrors = pre[p].errs

\* C4: for two consecutive successful scrapes, a key of the earlier document
\* that the later document lacks is not among the raise observations the
\* later Collect sends.
C4_StaleKeysVanish ==
  \A p \in Procs :
    (Done(p) /\ Fetched(p) /\ prev[p].ok) =>
      \A k \in prev[p].keys \ DocKeys(doc[p]) : k \notin DOMAIN sent[p].raise

\* C5: no Collect is aborted by its scrape: whatever the fetch or the
\* document, the caller never panics (it goes on to send the up observation).
C5_CollectNeverAborts ==
  \A p \in Procs : pc[p] # "panic"

\* C6: Collect calls exclude one another: no other caller writes up, the
\* gauges or the parse-error counters while a Collect is between the start of
\* its scrape and the end of its emission.
C6_CollectsExclusive ==
  \A p \in Procs : ~interfered[p]

\* C7: when both callers were served the same document with a success
\* status, a finished Collect has sent every key of the document with the
\* value a complete scrape of that document gives it.
C7_ConcurrentSnapshotComplete ==
  \A p \in Procs :
    (/\ Done(p)
     /\ \A q \in Procs : Fetched(q) /\ BodyKnown(q) /\ doc[q] = doc[p]) =>
      \A k \in DocKeys(doc[p]) :
        /\ k \in DOMAIN sent[p].raise
        /\ sent[p].raise[k] = ParseLines(NoMetrics, Split(doc[p], NL)).raise[k]

\* C8: scraping a well-formed document with N distinct keys from the empty
\* state sends exactly N raise observations, and a fail observation for a
\* key exactly when the key's fail value is not zero.
C8_WellFormedCounts ==
  \A p \in Procs :
    (/\ Done(p) /\ Fetched(p) /\ WellFormed(doc[p])
     /\ pre[p].raise = NoSeries) =>
      /\ Cardinality(DOMAIN sent[p].raise) = Cardinality(DocKeys(doc[p]))
      /\ \A i \in RowIdx(doc[p]) :
           LET cols == Rows(doc[p])[i]
           IN  KeyOf(cols) \in DOMAIN sent[p].fail <=> Atoi(FailField(cols)).val # 0

\* C9: after a successful scrape of a well-formed document, a record with
\* raise value r and non-zero fail value f is published as r in the raise
\* series and as f in the fail series of its key.
C9_SeriesIndependent ==
  \A p \in Procs :
    (Done(p) /\ Fetched(p) /\ WellFormed(doc[p])) =>
      \A i \in RowIdx(doc[p]) :
        LET cols == Rows(doc[p])[i]
            k    == KeyOf(cols)
        IN  Atoi(FailField(cols)).val # 0 =>
              /\ k \in DOMAIN sent[p].raise
              /\ sent[p].raise[k] = Atoi(RaiseField(cols)).val
              /\ k \in DOMAIN sent[p].fail
              /\ sent[p].fail[k] = Atoi(FailField(cols)).val

\* C10: a successful scrape adds to the raise parse-error counter exactly the
\* number of lines whose raise field is not an integer, and publishes no
\* raise value for a key whose every line in the document is such a line.
C10_BadRaiseNotPublished ==
  \A p \in Procs :
    (/\ Done(p) /\ Fetched(p)
     /\ \A i \in RowIdx(doc[p]) : ~TooShort(Rows(doc[p])[i])) =>
      /\ CounterValue(sent[p].errs, "raise") =
           CounterValue(pre[p].errs, "raise")
             + Cardinality({i \in RowIdx(doc[p]) : ~NumericRaise(Rows(doc[p])[i])})
      /\ \A i \in RowIdx(doc[p]) :
           (\A j \in RowIdx(doc[p]) :
              KeyOf(Rows(doc[p])[j]) = KeyOf(Rows(doc[p])[i])
                => ~NumericRaise(Rows(doc[p])[j]))
             => KeyOf(Rows(doc[p])[i]) \notin DOMAIN sent[p].raise

\* C11: in every step, of any caller and any outcome, each parse-error
\* counter (raise, fail) is at least what it was before the step.
C11_CountersNeverDecrease ==
  [][\A k \in {"raise", "fail"} :
       CounterValue(scrapeErrors', k) >= CounterValue(scrapeErrors, k)]_vars

\* Both counters have been incremented twice, by overlapping Collect calls.
C11_Witness ==
  /\ CounterValue(scrapeErrors, "raise") = 2
  /\ CounterValue(scrapeErrors, "fail") = 2
  /\ \A p \in Procs : interfered[p]

\* Observations a caller's Collect has put on the channel.
SentCount(p) ==
  Cardinality(DOMAIN sent[p].raise) + Cardinality(DOMAIN sent[p].fail)
    + Cardinality(DOMAIN sent[p].errs) + Len(sent[p].up)

\* Well formed, and every fail value is 0.
ZeroFail(d) ==
  /\ WellFormed(d)
  /\ \A i \in RowIdx(d) : Atoi(FailField(Rows(d)[i])).val = 0

\* C12: on a fresh exporter, the first Collect served a success status and a
\* document of N lines with N distinct keys, numeric fields and fail values
\* 0 does not panic, and when it returns it has sent N + 1 observations: N
\* raise observations, no fail observation, and up with value 1.
C12_TestDocumentCount ==
  \A p \in Procs :
    (ncollect = 1 /\ Fetched(p) /\ bodyRead[p] /\ ZeroFail(doc[p])) =>
      /\ pc[p] # "panic"
      /\ Done(p) =>
           /\ SentCount(p) = Len(Rows(doc[p])) + 1
           /\ Cardinality(DOMAIN sent[p].raise) = Len(Rows(doc[p]))
           /\ sent[p].fail = NoSeries
           /\ sent[p].up = <<1>>

\* The test's case: nginxStatus served, Collect returned, 6 observations.
C12_Witness ==
  /\ ncollect = 1
  /\ Done(Main)
  /\ Fetched(Main)
  /\ doc[Main] = NginxStatus
  /\ SentCount(Main) = 6

\* C13: once a scrape parses lines or is over, it has written nginxUp
\* exactly once.
C13_UpWrittenOnce ==
  \A p \in Procs :
    (pc[p] \in {"raise", "fail"} \/ ScrapeOver(p)) => upWrites[p] = 1

\* C14: a successful scrape of a document with a line of fewer than 6 fields
\* does not panic, and when it is over every such line has been counted as
\* a raise parse error.
C14_ShortLineCounted ==
  \A p \in Procs :
    (/\ Fetched(p) /\ bodyRead[p]
     /\ \E i \in RowIdx(doc[p]) : TooShort(Rows(doc[p])[i])) =>
      /\ pc[p] # "panic"
      /\ ScrapeOver(p) =>
           CounterValue(scrapeErrors, "raise") =
             CounterValue(pre[p].errs, "raise")
               + Cardinality({i \in RowIdx(doc[p]) : ~NumericRaise(Rows(doc[p])[i])})

\* Lines of the document whose field of category k is not an integer.
ErrCount(d, k) ==
  Cardinality({i \in RowIdx(d) :
                 IF k = "raise" THEN ~NumericRaise(Rows(d)[i])
                 ELSE ~NumericFail(Rows(d)[i])})

\* C15 as stated: a Collect that has returned sent, for each of the two
\* categories, one observation carrying the category's cumulative count.
C15_EveryCategorySent ==
  \A p \in Procs :
    Done(p) =>
      \A k \in {"raise", "fail"} :
        /\ k \in DOMAIN sent[p].errs
        /\ sent[p].errs[k] = CounterValue(scrapeErrors, k)

\* C15 amended: a Collect that has returned sent an observation exactly for
\* the categories that have counted at least one parse error so far, each
\* carrying the cumulative count (the count before this Collect plus the
\* document's lines with that field not an integer).
C15_CountedCategoriesSent ==
  \A p \in Procs :
    Done(p) =>
      /\ DOMAIN sent[p].errs \subseteq {"raise", "fail"}
      /\ \A k \in {"raise", "fail"} :
           LET n == CounterValue(pre[p].errs, k) + ErrCount(doc[p], k)
           IN  /\ k \in DOMAIN sent[p].errs <=> n > 0
               /\ n > 0 => sent[p].errs[k] = n

\* A Collect returned having sent the raise category with count 2 and no
\* observation for the fail category.
C15_Witness ==
  /\ Done(Main)
  /\ DOMAIN sent[Main].errs = {"raise"}
  /\ sent[Main].errs["raise"] = 2

\* Rows with a numeric raise field and a fail field that is not an integer.
BadFailOnly(d) ==
  {i \in RowIdx(d) : NumericRaise(Rows(d)[i]) /\ ~TooShort(Rows(d)[i])
                       /\ ~NumericFail(Rows(d)[i])}

\* C16: after a successful scrape of a document that has lines with a
\* numeric raise field and a non-numeric fail field, the fail counter has
\* grown by one per line with a bad fail field, the raise counter only by
\* the lines with a bad raise field (none for those lines), and each such
\* line's raise value is published for its key unless a later line of the
\* document has the same key.
C16_BadFailCountedAlone ==
  \A p \in Procs :
    (Done(p) /\ Fetched(p) /\ BadFailOnly(doc[p]) # {}) =>
      /\ CounterValue(sent[p].errs, "fail") =
           CounterValue(pre[p].errs, "fail") + ErrCount(doc[p], "fail")
      /\ CounterValue(sent[p].errs, "raise") =
           CounterValue(pre[p].errs, "raise") + ErrCount(doc[p], "raise")
      /\ \A i \in BadFailOnly(doc[p]) :
           LET cols == Rows(doc[p])[i]
           IN  (\A j \in RowIdx(doc[p]) : j > i => KeyOf(Rows(doc[p])[j]) # KeyOf(cols))
                 => /\ KeyOf(cols) \in DOMAIN sent[p].raise
                    /\ sent[p].raise[KeyOf(cols)] = Atoi(RaiseField(cols)).val

\* One such line scraped alone: fail counter 1, no raise error, value 5 sent.
C16_Witness ==
  /\ Done(Main)
  /\ Fetched(Main)
  /\ doc[Main] = LineA5x
  /\ sent[Main].errs = VecSet(pre[Main].errs, "fail", CounterValue(pre[Main].errs, "fail") + 1)
  /\ sent[Main].raise[KeyOf(Split(LineA5x, Comma))] = 5

\* C17: a Collect that is past its Get has made exactly one Get (none
\* before it), and whatever it has emitted it emitted after its scrape had
\* ranged over every line, as the metric state the scrape left.
C17_OneGetThenEmit ==
  \A p \in Procs :
    /\ pc[p] \in {"idle", "get"} => gets[p] = 0
    /\ pc[p] \notin {"idle", "get"} => gets[p] = 1
    /\ sent[p] # NothingSent => ScrapeOver(p)
    /\ ScrapeOver(p) =>
         /\ lines[p] = <<>>
         /\ sent[p].raise \in {NoSeries, raise}
         /\ sent[p].errs \in {NoSeries, scrapeErrors}
         /\ sent[p].up \in {<<>>, <<nginxUp>>}

\* A second Collect has returned after one Get, with a record sent.
C17_Witness ==
  /\ Done(Main)
  /\ ncollect = 2
  /\ gets[Main] = 1
  /\ sent[Main].raise # NoSeries
  /\ sent[Main].up = <<1>>

\* The document without its empty lines.
StripBlank(d) == Join(SelectSeq(Split(d, NL), LAMBDA l : Len(l) > 0), NL)

\* The raise gauges and error counters lines 125-150 leave when they range
\* over document d from the state the caller's Collect began in.
ScrapedFrom(p, d) ==
  LET m == ParseLines([raise |-> pre[p].raise, fail |-> fail, errs |-> pre[p].errs],
                      Split(d, NL))
  IN  [raise |-> m.raise, errs |-> m.errs]

HasShortRow(d) == \E i \in RowIdx(d) : TooShort(Rows(d)[i])

\* C18: a scrape of a document leaves the raise gauges and the error
\* counters that a scrape of the document without its empty lines leaves,
\* and it stops early only at a non-blank line, never at an empty one.
C18_BlankLinesSkipped ==
  \A p \in Procs :
    /\ (ScrapeOver(p) \/ (pc[p] = "panic" /\ bodyRead[p])) =>
         [raise |-> raise, errs |-> scrapeErrors] = ScrapedFrom(p, StripBlank(doc[p]))
    /\ ScrapeOver(p) => ~HasShortRow(doc[p])
    /\ (pc[p] = "panic" /\ bodyRead[p]) => HasShortRow(doc[p])

\* A document with an empty first line and a record has been scraped.
C18_Witness ==
  /\ Done(Main)
  /\ Fetched(Main)
  /\ doc[Main] = Join(<<LineBlank, LineA50>>, NL)
  /\ StripBlank(doc[Main]) = LineA50
  /\ sent[Main].raise[KeyOf(Split(LineA50, Comma))] = 5

\* C19: e.fail never has a series, and no Collect sends one, whatever
\* documents were scraped.
C19_FailNeverPopulated ==
  /\ fail = NoSeries
  /\ \A p \in Procs : sent[p].fail = NoSeries

\* A record with fail count 3 has been scraped twice and e.fail collected.
C19_Witness ==
  /\ Done(Main)
  /\ Fetched(Main)
  /\ ncollect = 2
  /\ doc[Main] = LineB73
  /\ prev[Main].ok /\ prev[Main].keys = {KeyOf(Split(LineB73, Comma))}
  /\ Atoi(FailField(Split(LineB73, Comma))) = [err |-> FALSE, val |-> 3]
  /\ sent[Main].raise # NoSeries

====
